---- MODULE Spec2Model ----
(***************************************************************************)
(* gantt-charter: YAML schedule -> task table -> Gantt chart -> file.      *)
(*                                                                         *)
(* Modelled code: src/src/gantt_charter.py (load_data_from_yaml,           *)
(* yaml_to_dataframe, GanttCharter.create_gantt_chart,                     *)
(* create_resource_timeline, save_chart, create_gantt_from_yaml) and       *)
(* src/cli.py (main).                                                      *)
(*                                                                         *)
(* Conventions.                                                            *)
(*  - A Python dict is a function whose DOMAIN is the set of its keys.     *)
(*  - Python None / pandas null (NaT, NaN) in a dict value, a data-frame   *)
(*    cell or an argparse attribute is the ABSENCE of the key from the     *)
(*    function that models the container; Has(d, k) is "d[k] is not None". *)
(*  - A data frame is [columns |-> sequence of names, rows |-> sequence of *)
(*    rows]; a row maps each column whose cell is non-null to its value.   *)
(*  - A calendar date is the number of days since the first day used in    *)
(*    the document; a pandas Timestamp is a number of ticks (hours).       *)
(***************************************************************************)
EXTENDS Integers, Sequences, FiniteSets, TLC

(***************************************************************************)
(* Bounds of the model.                                                    *)
(***************************************************************************)
MaxTasks == 2
MaxDay == 2
MaxOptions == 2
MaxCalls == 2

VARIABLES
    pc,          \* control location of the running entry point
    raised,      \* class of the exception that ended the run, or "None"
    raisedIn,    \* the stage in which it was raised, or "None"
    filepath,    \* load_data_from_yaml: its argument (absent key: None)
    files,       \* the file system: path -> content, for the paths that exist
    probed,      \* the paths whose existence was tested, in order
    opened,      \* the paths handed to open(), in order
    message,     \* the message of the raised exception
    stdout,      \* lines printed to standard output, in order
    yaml_data,   \* the parsed document (result of load_data_from_yaml)
    df,          \* the task table returned by yaml_to_dataframe
    fig,         \* the figure returned by create_gantt_chart
    argv,        \* main: the options given on the command line
    args,        \* main: the namespace returned by parse_args
    project,     \* main: yaml_data.get('project', {})
    config,      \* main: yaml_data.get('config', {})
    resolved,    \* main: the locals title, palette, add_branding, width, height
    dirs,        \* the directories that exist
    exported,    \* the arguments of the save_chart calls, in order
    written,     \* the chart files written
    shown,       \* fig.show() has opened the interactive viewer
    stderr,      \* lines printed to standard error, in order
    rc,          \* main: the returned code (absent key: not returned yet)
    call,        \* create_gantt_from_yaml: the arguments of the call
    heap,        \* the table objects: the caller's (data) and the local (df)
    calls        \* the rendering methods called on the caller's table, in order

loadVars == <<filepath, files, probed, opened, message>>
dataVars == <<yaml_data, df, fig>>
cliVars == <<argv, args, project, config, resolved, dirs, exported, written,
             shown, stderr, rc>>
libVars == <<call, heap, calls>>
vars == <<pc, raised, raisedIn, loadVars, stdout, dataVars, cliVars, libVars>>

(***************************************************************************)
(* Python values.                                                          *)
(***************************************************************************)
\* yaml.safe_load of an empty stream returns None instead of a mapping
NoneValue == [isNone |-> TRUE]
EmptyDict == <<>>
NoFigure == [absent |-> TRUE]
NoFrame == [absent |-> TRUE]
NoData == [absent |-> TRUE]
NoMessage == [text |-> "", names |-> {}]

Has(d, k) == k \in DOMAIN d

\* dict.get(k, default)
Get(d, k, default) == IF k \in DOMAIN d THEN d[k] ELSE default

\* the entry  col: d.get(k)  of a dict literal: null when d has no key k
Cell(col, d, k) == IF k \in DOMAIN d THEN col :> d[k] ELSE EmptyDict

Range(s) == {s[i] : i \in 1..Len(s)}

SeqsUpTo(S, n) == UNION {[1..k -> S] : k \in 0..n}

\* main is not running
CliIdle ==
    /\ argv = EmptyDict
    /\ args = EmptyDict
    /\ project = EmptyDict
    /\ config = EmptyDict
    /\ resolved = EmptyDict
    /\ dirs = {<<>>}
    /\ exported = <<>>
    /\ written = {}
    /\ shown = FALSE
    /\ stderr = <<>>
    /\ rc = EmptyDict

\* no library call is being made
LibIdle ==
    /\ call = EmptyDict
    /\ heap = EmptyDict
    /\ calls = <<>>

(***************************************************************************)
(* load_data_from_yaml                                                     *)
(***************************************************************************)
PrivatePath == "data/gantt_data.yaml"
TemplatePath == "data/gantt_template.yaml"

\* variant: the template is tested before the private data
possible_files_TemplateFirst == <<TemplatePath, PrivatePath>>

possible_files == <<PrivatePath, TemplatePath>>

\* content of a file that is not well-formed YAML
Malformed == [malformed |-> TRUE]

\* An exception message is its text and the set of paths the text contains.
NotFoundMessage ==
    [text |-> "No YAML file found. Please create 'data/gantt_data.yaml' from the template.",
     names |-> {PrivatePath}]

\* FileNotFoundError raised by open(): "[Errno 2] No such file or directory: '<path>'"
OpenMessage(path) == [text |-> "No such file or directory", names |-> {path}]

FirstExisting(fs) ==
    IF \E i \in 1..Len(possible_files) : Has(fs, possible_files[i])
    THEN CHOOSE i \in 1..Len(possible_files) :
            /\ Has(fs, possible_files[i])
            /\ \A j \in 1..(i - 1) : ~Has(fs, possible_files[j])
    ELSE 0

\* variant: the for loop has no else clause, so that with no candidate found
\* the function goes on to open(None)
load_data_from_yaml_NoElse(arg, fs) ==
    LET found == FirstExisting(fs)
        tested == IF Has(arg, "filepath") THEN <<>>
                  ELSE IF found = 0 THEN possible_files
                  ELSE SubSeq(possible_files, 1, found)
        path == IF Has(arg, "filepath") THEN arg.filepath
                ELSE possible_files[found]
        out == IF Has(arg, "filepath") THEN <<>> ELSE <<"Loading data from">>
    IN  IF ~Has(arg, "filepath") /\ found = 0
        THEN [raised |-> "TypeError", message |-> [text |-> "TypeError", names |-> {}],
              probed |-> tested, opened |-> <<>>, stdout |-> <<>>, data |-> NoData]
        ELSE IF ~Has(fs, path)
        THEN [raised |-> "FileNotFoundError", message |-> OpenMessage(path),
              probed |-> tested, opened |-> <<path>>, stdout |-> out, data |-> NoData]
        ELSE IF fs[path] = Malformed
        THEN [raised |-> "YAMLError", message |-> [text |-> "YAMLError", names |-> {}],
              probed |-> tested, opened |-> <<path>>, stdout |-> out, data |-> NoData]
        ELSE [raised |-> "None", message |-> NoMessage,
              probed |-> tested, opened |-> <<path>>, stdout |-> out, data |-> fs[path]]

\* arg has the key "filepath" unless the argument is None; fs is the file system
load_data_from_yaml(arg, fs) ==
    LET found == FirstExisting(fs)
        tested == IF Has(arg, "filepath") THEN <<>>
                  ELSE IF found = 0 THEN possible_files
                  ELSE SubSeq(possible_files, 1, found)
        path == IF Has(arg, "filepath") THEN arg.filepath
                ELSE possible_files[found]
        out == IF Has(arg, "filepath") THEN <<>> ELSE <<"Loading data from">>
    IN  IF ~Has(arg, "filepath") /\ found = 0
        THEN [raised |-> "FileNotFoundError", message |-> NotFoundMessage,
              probed |-> tested, opened |-> <<>>, stdout |-> <<>>, data |-> NoData]
        ELSE IF ~Has(fs, path)
        THEN [raised |-> "FileNotFoundError", message |-> OpenMessage(path),
              probed |-> tested, opened |-> <<path>>, stdout |-> out, data |-> NoData]
        ELSE IF fs[path] = Malformed
        THEN [raised |-> "YAMLError", message |-> [text |-> "YAMLError", names |-> {}],
              probed |-> tested, opened |-> <<path>>, stdout |-> out, data |-> NoData]
        ELSE [raised |-> "None", message |-> NoMessage,
              probed |-> tested, opened |-> <<path>>, stdout |-> out, data |-> fs[path]]

(***************************************************************************)
(* yaml_to_dataframe                                                       *)
(***************************************************************************)
RowColumns ==
    <<"Task", "Start", "Finish", "Resource", "Phase", "Description",
      "Dependencies">>

\* variant: the duration and its label are computed while normalising
RowOf_WithDuration(task) ==
       Cell("Task", task, "name")
    @@ Cell("Start", task, "start")
    @@ Cell("Finish", task, "finish")
    @@ ("Resource" :> Get(task, "resource", "Unassigned"))
    @@ ("Phase" :> Get(task, "phase", ""))
    @@ ("Description" :> Get(task, "description", ""))
    @@ ("Dependencies" :> Get(task, "dependencies", <<>>))
    @@ (IF Has(task, "start") /\ Has(task, "finish")
        THEN [Duration |-> task.finish - task.start, Duration_Text |-> "days"]
        ELSE EmptyDict)

\* variant: the defaults are applied to the whole row as soon as one optional
\* field is absent
RowOf_RowWise(task) ==
    LET complete == {"resource", "phase", "description", "dependencies"}
                        \subseteq DOMAIN task
    IN     Cell("Task", task, "name")
        @@ Cell("Start", task, "start")
        @@ Cell("Finish", task, "finish")
        @@ ("Resource" :> IF complete THEN task.resource ELSE "Unassigned")
        @@ ("Phase" :> IF complete THEN task.phase ELSE "")
        @@ ("Description" :> IF complete THEN task.description ELSE "")
        @@ ("Dependencies" :> IF complete THEN task.dependencies ELSE <<>>)

RowOf(task) ==
       Cell("Task", task, "name")
    @@ Cell("Start", task, "start")
    @@ Cell("Finish", task, "finish")
    @@ ("Resource" :> Get(task, "resource", "Unassigned"))
    @@ ("Phase" :> Get(task, "phase", ""))
    @@ ("Description" :> Get(task, "description", ""))
    @@ ("Dependencies" :> Get(task, "dependencies", <<>>))

\* pd.DataFrame(list of dicts): the columns are the keys of the dicts, and a
\* frame built from an empty list has no columns at all
DataFrame(df_data) ==
    [columns |-> IF df_data = <<>> THEN <<>> ELSE RowColumns,
     rows |-> df_data]

\* variant: a task entry equal to an earlier one is dropped
yaml_to_dataframe_Dedup(data) ==
    IF data = NoneValue
    THEN [raised |-> "AttributeError", df |-> NoFrame]
    ELSE LET tasks == Get(data, "tasks", <<>>)
             first(i) == \A j \in 1..(i - 1) : tasks[j] # tasks[i]
             kept[n \in 0..Len(tasks)] ==
                 IF n = 0 THEN <<>>
                 ELSE IF first(n) THEN Append(kept[n - 1], RowOf(tasks[n]))
                 ELSE kept[n - 1]
         IN  [raised |-> "None", df |-> DataFrame(kept[Len(tasks)])]

yaml_to_dataframe(data) ==
    IF data = NoneValue
    THEN [raised |-> "AttributeError", df |-> NoFrame]
    ELSE LET tasks == Get(data, "tasks", <<>>)
             df_data == [i \in 1..Len(tasks) |-> RowOf(tasks[i])]
         IN  [raised |-> "None", df |-> DataFrame(df_data)]

(***************************************************************************)
(* GanttCharter.create_gantt_chart                                         *)
(***************************************************************************)
TicksPerDay == 24

required_cols == <<"Task", "Start", "Finish">>

\* pd.to_datetime on one cell: a date becomes the Timestamp of its midnight,
\* a null cell becomes NaT (stays null)
to_datetime(row, col) ==
    IF col \in DOMAIN row THEN col :> (row[col] * TicksPerDay) ELSE EmptyDict

\* Timedelta.days: whole days, rounded towards minus infinity
TimedeltaDays(delta) == delta \div TicksPerDay

\* Series.dt.days is int64 when every duration is known and float64 as soon as
\* one of them is NaT (the missing one becomes NaN)
DaysDtype(rows) ==
    IF \E i \in 1..Len(rows) : ~Has(rows[i], "Start") \/ ~Has(rows[i], "Finish")
    THEN "float64"
    ELSE "int64"

\* f"{d}" for a whole number of days of the given dtype
Format(d, dtype) == IF dtype = "float64" THEN ToString(d) \o ".0" ELSE ToString(d)

\* lambda d: f"{d} days" if d != 1 else "1 day"
Duration_Text(d, dtype) == IF d # 1 THEN Format(d, dtype) \o " days" ELSE "1 day"

\* one row of the private copy after lines 83-88
ChartRow(row, dtype) ==
    LET dated == to_datetime(row, "Start") @@ to_datetime(row, "Finish") @@ row
        both == Has(dated, "Start") /\ Has(dated, "Finish")
        duration == IF both
                    THEN "Duration" :> TimedeltaDays(dated["Finish"] - dated["Start"])
                    ELSE EmptyDict
        text == IF both
                THEN Duration_Text(duration["Duration"], dtype)
                ELSE "nan days"
    IN  ("Duration_Text" :> text) @@ duration @@ dated

\* ext is the outcome of the plotting collaborator (oxford_plotly_theme,
\* plotly.express.timeline and the figure updates): "None" or the class of
\* the exception it raises
create_gantt_chart(data, title, palette, show_dependencies, add_branding, kwargs, ext) ==
    IF \E i \in 1..Len(required_cols) : required_cols[i] \notin Range(data.columns)
    THEN [raised |-> "ValueError", fig |-> NoFigure]
    ELSE IF ext # "None"
    THEN [raised |-> ext, fig |-> NoFigure]
    ELSE [raised |-> "None",
          fig |-> [title |-> title,
                   palette |-> palette,
                   add_branding |-> add_branding,
                   kwargs |-> kwargs,
                   data |-> [columns |-> data.columns \o <<"Duration", "Duration_Text">>,
                             rows |-> [i \in 1..Len(data.rows) |->
                                          ChartRow(data.rows[i], DaysDtype(data.rows))]]]]

(***************************************************************************)
(* Documents of the normalisation runs.                                    *)
(***************************************************************************)
RequiredKeys == {"name", "start", "finish"}
OptionalKeys == {"resource", "phase", "description", "dependencies"}

BaseTask ==
    [name |-> "A", start |-> 0, finish |-> 1, resource |-> "Bob",
     phase |-> "Design", description |-> "first draft",
     dependencies |-> <<"B">>]

Restrict(f, K) == [k \in K |-> f[k]]

\* every subset of the optional keys left out of a task that has its required
\* keys, and every subset of the required keys left out of a task that has its
\* optional keys
PresenceEntries ==
    {Restrict(BaseTask, RequiredKeys \cup K) : K \in SUBSET OptionalKeys}
    \cup {Restrict(BaseTask, K \cup OptionalKeys) : K \in SUBSET RequiredKeys}

\* complete entries over every pair of dates, finish before, at or after start
DateEntries ==
    {[name |-> "B", start |-> s, finish |-> f, resource |-> "Bob",
      phase |-> "Design", description |-> "first draft",
      dependencies |-> <<"B">>] : s \in 0..MaxDay, f \in 0..MaxDay}

TaskEntries == PresenceEntries \cup DateEntries

NormDocs ==
    {NoneValue, EmptyDict}
    \cup {"tasks" :> ts : ts \in SeqsUpTo(TaskEntries, MaxTasks)}

(***************************************************************************)
(* Normalisation runs: yaml_to_dataframe followed by create_gantt_chart    *)
(* with the defaults of its signature.                                     *)
(***************************************************************************)
RenderOutcomes == {"None", "Exception"}
MkdirOutcomes == {"None", "PermissionError"}
SaveOutcomes == {"None", "ValueError"}
ShowOutcomes == {"None", "Exception"}

NormInit ==
    /\ pc = "start"
    /\ raised = "None"
    /\ raisedIn = "None"
    /\ filepath = EmptyDict
    /\ files = EmptyDict
    /\ probed = <<>>
    /\ opened = <<>>
    /\ message = NoMessage
    /\ stdout = <<>>
    /\ yaml_data \in NormDocs
    /\ df = NoFrame
    /\ fig = NoFigure
    /\ CliIdle
    /\ LibIdle

Normalize ==
    /\ pc = "start"
    /\ LET r == yaml_to_dataframe(yaml_data)
       IN  /\ raised' = r.raised
           /\ df' = r.df
           /\ raisedIn' = IF r.raised = "None" THEN "None" ELSE "normalize"
           /\ pc' = IF r.raised = "None" THEN "normalized" ELSE "failed"
    /\ UNCHANGED <<loadVars, stdout, yaml_data, fig, cliVars, libVars>>

Render ==
    /\ pc = "normalized"
    /\ \E ext \in RenderOutcomes :
          LET r == create_gantt_chart(df, "Project Timeline", "professional",
                                      FALSE, FALSE, EmptyDict, ext)
          IN  /\ raised' = r.raised
              /\ fig' = r.fig
              /\ raisedIn' = IF r.raised = "None" THEN "None" ELSE "render"
              /\ pc' = IF r.raised = "None" THEN "rendered" ELSE "failed"
    /\ UNCHANGED <<loadVars, stdout, yaml_data, df, cliVars, libVars>>

NormNext == Normalize \/ Render

SpecNorm == NormInit /\ [][NormNext]_vars

(***************************************************************************)
(* Loading runs: one call of load_data_from_yaml on a file system.         *)
(***************************************************************************)
ExplicitPath == "project.yaml"

LoadPaths == {PrivatePath, TemplatePath, ExplicitPath}

LoadContents ==
    {Malformed, NoneValue, EmptyDict, "tasks" :> <<BaseTask>>}

LoadFileSystems == UNION {[S -> LoadContents] : S \in SUBSET LoadPaths}

LoadInit ==
    /\ pc = "start"
    /\ raised = "None"
    /\ raisedIn = "None"
    /\ filepath \in {EmptyDict, "filepath" :> ExplicitPath}
    /\ files \in LoadFileSystems
    /\ probed = <<>>
    /\ opened = <<>>
    /\ message = NoMessage
    /\ stdout = <<>>
    /\ yaml_data = NoData
    /\ df = NoFrame
    /\ fig = NoFigure
    /\ CliIdle
    /\ LibIdle

Load ==
    /\ pc = "start"
    /\ LET r == load_data_from_yaml(filepath, files)
       IN  /\ raised' = r.raised
           /\ raisedIn' = IF r.raised = "None" THEN "None" ELSE "load"
           /\ message' = r.message
           /\ probed' = r.probed
           /\ opened' = r.opened
           /\ stdout' = stdout \o r.stdout
           /\ yaml_data' = r.data
           /\ pc' = IF r.raised = "None" THEN "loaded" ELSE "failed"
    /\ UNCHANGED <<filepath, files, df, fig, cliVars, libVars>>

LoadNext == Load

SpecLoad == LoadInit /\ [][LoadNext]_vars

(***************************************************************************)
(* GanttCharter.save_chart                                                 *)
(***************************************************************************)
\* A path is the sequence of its components.
Parent(path) == SubSeq(path, 1, Len(path) - 1)
Prefixes(path) == {SubSeq(path, 1, n) : n \in 0..Len(path)}

\* ext is the outcome of the export collaborator (save_oxford_figure,
\* write_html, write_image) once the file can be created: "None" or the class
\* of the exception it raises. A file cannot be created in a directory that
\* does not exist.
save_chart(figure, filename, format, width, height, scale, ds, ext) ==
    IF Parent(filename) \notin ds
    THEN [raised |-> "FileNotFoundError", written |-> {}, stdout |-> <<>>]
    ELSE IF ext # "None"
    THEN [raised |-> ext, written |-> {}, stdout |-> <<>>]
    ELSE [raised |-> "None",
          written |-> {[path |-> filename, format |-> format]},
          stdout |-> <<"Chart saved as">>]

(***************************************************************************)
(* cli.main                                                                *)
(***************************************************************************)
\* argparse: the namespace for the given options, with the declared defaults
parse_args(given) ==
       Cell("input", given, "input")
    @@ Cell("output", given, "output")
    @@ ("output_dir" :> Get(given, "output_dir", <<"output">>))
    @@ ("format" :> Get(given, "format", "html"))
    @@ ("width" :> Get(given, "width", 1200))
    @@ ("height" :> Get(given, "height", 600))
    @@ ("scale" :> Get(given, "scale", 3))
    @@ Cell("palette", given, "palette")
    @@ Cell("title", given, "title")
    @@ Cell("branding", given, "branding")
    @@ ("no_branding" :> Get(given, "no_branding", FALSE))
    @@ ("show" :> Get(given, "show", FALSE))
    @@ ("verbose" :> Get(given, "verbose", FALSE))

\* Python's  d.k or other  for a string and for an integer attribute
OrStr(d, k, other) == IF Has(d, k) /\ d[k] # "" THEN d[k] ELSE other
OrInt(d, k, other) == IF Has(d, k) /\ d[k] # 0 THEN d[k] ELSE other
OrPath(d, k, other) == IF Has(d, k) /\ d[k] # <<>> THEN d[k] ELSE other

ResolveTitle(a, proj) == OrStr(a, "title", Get(proj, "title", "Project Timeline"))

\* variant: the document wins over the command line
ResolvePalette_ConfigFirst(a, conf) ==
    IF Has(conf, "palette") THEN conf.palette
    ELSE OrStr(a, "palette", "professional")

ResolvePalette(a, conf) == OrStr(a, "palette", Get(conf, "palette", "professional"))

\* variant: --branding is looked at before --no-branding
ResolveBranding_FlagFirst(a, conf) ==
    IF Has(a, "branding") THEN a.branding
    ELSE IF a.no_branding THEN FALSE
    ELSE Get(conf, "add_branding", FALSE)

ResolveBranding(a, conf) ==
    IF a.no_branding THEN FALSE
    ELSE IF Has(a, "branding") THEN a.branding
    ELSE Get(conf, "add_branding", FALSE)

ResolveWidth(a, conf) == OrInt(a, "width", Get(conf, "width", 1200))

ResolveHeight(a, conf) == OrInt(a, "height", Get(conf, "height", 600))

\* str.lower().replace(' ', '_') on the titles of the model
Slug(t) == IF t = "My Plan" THEN "my_plan" ELSE t

OutputName(a, proj) == OrPath(a, "output", <<Slug(Get(proj, "title", "gantt_chart"))>>)

\* the lines the two except clauses print to standard error
ExceptLines(cls, verbose) ==
    IF cls = "FileNotFoundError"
    THEN <<"Error", "Please ensure you have created a data file",
           "cp data/gantt_template.yaml data/gantt_data.yaml",
           "Then edit data/gantt_data.yaml">>
    ELSE IF verbose THEN <<"Error", "traceback">> ELSE <<"Error">>

Verbose(line) == IF args.verbose THEN <<line>> ELSE <<>>

\* an exception raised in a stage reaches the except clauses: return 1
Except(stage, cls) ==
    /\ raised' = cls
    /\ raisedIn' = stage
    /\ stderr' = stderr \o ExceptLines(cls, args.verbose)
    /\ rc' = [code |-> 1]
    /\ pc' = "exit"

NoExcept == UNCHANGED <<raised, raisedIn, stderr, rc>>

CliLoad ==
    /\ pc = "load"
    /\ LET r == load_data_from_yaml(Cell("filepath", args, "input"), files)
       IN  /\ filepath' = Cell("filepath", args, "input")
           /\ probed' = r.probed
           /\ opened' = r.opened
           /\ message' = r.message
           /\ stdout' = stdout \o Verbose("Loading data from") \o r.stdout
           /\ yaml_data' = r.data
           /\ IF r.raised = "None"
              THEN NoExcept /\ pc' = "extract"
              ELSE Except("load", r.raised)
    /\ UNCHANGED <<libVars, files, df, fig, argv, args, project, config, resolved, dirs,
                   exported, written, shown>>

CliExtract ==
    /\ pc = "extract"
    /\ IF yaml_data = NoneValue
       THEN /\ Except("extract", "AttributeError")
            /\ UNCHANGED <<project, config>>
       ELSE /\ project' = Get(yaml_data, "project", EmptyDict)
            /\ config' = Get(yaml_data, "config", EmptyDict)
            /\ NoExcept
            /\ pc' = "normalize"
    /\ UNCHANGED <<libVars, loadVars, stdout, dataVars, argv, args, resolved, dirs,
                   exported, written, shown>>

CliNormalize ==
    /\ pc = "normalize"
    /\ LET r == yaml_to_dataframe(yaml_data)
       IN  /\ df' = r.df
           /\ IF r.raised = "None"
              THEN /\ NoExcept
                   /\ stdout' = stdout \o Verbose("Loaded tasks from YAML")
                   /\ pc' = "resolve"
              ELSE /\ Except("normalize", r.raised)
                   /\ UNCHANGED stdout
    /\ UNCHANGED <<libVars, loadVars, yaml_data, fig, argv, args, project, config,
                   resolved, dirs, exported, written, shown>>

CliResolve ==
    /\ pc = "resolve"
    /\ resolved' = [title |-> ResolveTitle(args, project),
                    palette |-> ResolvePalette(args, config),
                    add_branding |-> ResolveBranding(args, config),
                    width |-> ResolveWidth(args, config),
                    height |-> ResolveHeight(args, config)]
    /\ pc' = "render"
    /\ NoExcept
    /\ UNCHANGED <<libVars, loadVars, stdout, dataVars, argv, args, project, config,
                   dirs, exported, written, shown>>

CliRender ==
    /\ pc = "render"
    /\ \E ext \in RenderOutcomes :
          LET r == create_gantt_chart(df, resolved.title, resolved.palette,
                                      Get(config, "show_dependencies", FALSE),
                                      resolved.add_branding,
                                      [height |-> resolved.height], ext)
          IN  /\ fig' = r.fig
              /\ IF r.raised = "None"
                 THEN NoExcept /\ pc' = "mkdir"
                 ELSE Except("render", r.raised)
    /\ stdout' = stdout \o Verbose("Creating Gantt chart with palette")
    /\ UNCHANGED <<libVars, loadVars, yaml_data, df, argv, args, project, config,
                   resolved, dirs, exported, written, shown>>

\* Path(args.output_dir).mkdir(parents=True, exist_ok=True)
CliMkdir ==
    /\ pc = "mkdir"
    /\ \E ext \in MkdirOutcomes :
          IF ext = "None"
          THEN /\ dirs' = dirs \cup Prefixes(args.output_dir)
               /\ NoExcept
               /\ pc' = "save"
          ELSE /\ Except("mkdir", ext)
               /\ UNCHANGED dirs
    /\ UNCHANGED <<libVars, loadVars, stdout, dataVars, argv, args, project, config,
                   resolved, exported, written, shown>>

\* variant: an exception of save_chart is swallowed, the run goes on
CliSave_Unchecked ==
    /\ pc = "save"
    /\ \E ext \in SaveOutcomes :
          LET output_path == args.output_dir \o OutputName(args, project)
              r == save_chart(fig, output_path, args.format, resolved.width,
                              resolved.height, args.scale, dirs, ext)
          IN  /\ exported' = Append(exported,
                                    [filename |-> output_path,
                                     format |-> args.format,
                                     width |-> resolved.width,
                                     height |-> resolved.height,
                                     scale |-> args.scale])
              /\ written' = written \cup r.written
              /\ stdout' = stdout \o Verbose("Saving chart as") \o r.stdout
                                  \o <<"Chart saved successfully">>
              /\ NoExcept
              /\ pc' = "show"
    /\ UNCHANGED <<libVars, loadVars, dataVars, argv, args, project, config, resolved,
                   dirs, shown>>

CliSave ==
    /\ pc = "save"
    /\ \E ext \in SaveOutcomes :
          LET output_path == args.output_dir \o OutputName(args, project)
              r == save_chart(fig, output_path, args.format, resolved.width,
                              resolved.height, args.scale, dirs, ext)
          IN  /\ exported' = Append(exported,
                                    [filename |-> output_path,
                                     format |-> args.format,
                                     width |-> resolved.width,
                                     height |-> resolved.height,
                                     scale |-> args.scale])
              /\ written' = written \cup r.written
              /\ IF r.raised = "None"
                 THEN /\ stdout' = stdout \o Verbose("Saving chart as") \o r.stdout
                                          \o <<"Chart saved successfully">>
                      /\ NoExcept
                      /\ pc' = "show"
                 ELSE /\ stdout' = stdout \o Verbose("Saving chart as") \o r.stdout
                      /\ Except("save", r.raised)
    /\ UNCHANGED <<libVars, loadVars, dataVars, argv, args, project, config, resolved,
                   dirs, shown>>

\* if args.show: fig.show(); return 0
CliShow ==
    /\ pc = "show"
    /\ IF args.show
       THEN \E ext \in ShowOutcomes :
               /\ stdout' = stdout \o Verbose("Opening chart in browser")
               /\ IF ext = "None"
                  THEN /\ shown' = TRUE
                       /\ UNCHANGED <<raised, raisedIn, stderr>>
                       /\ rc' = [code |-> 0]
                       /\ pc' = "exit"
                  ELSE /\ Except("show", ext)
                       /\ UNCHANGED shown
       ELSE /\ UNCHANGED <<raised, raisedIn, stderr, stdout, shown>>
            /\ rc' = [code |-> 0]
            /\ pc' = "exit"
    /\ UNCHANGED <<libVars, loadVars, dataVars, argv, args, project, config, resolved,
                   dirs, exported, written>>

(***************************************************************************)
(* Command-line runs: one call of main.                                    *)
(***************************************************************************)
OptionNames ==
    {"input", "output", "format", "width", "height", "palette", "title",
     "branding", "no_branding", "show", "verbose"}

\* the value of each option when it is given; --width 0 is accepted by argparse
GivenOptions ==
    {[input |-> ExplicitPath, output |-> o, format |-> "png", width |-> w,
      height |-> 400, palette |-> "vibrant", title |-> "Roadmap",
      branding |-> TRUE, no_branding |-> TRUE, show |-> TRUE, verbose |-> TRUE] :
        o \in {<<"report">>, <<"sub", "report">>}, w \in {800, 0}}

Argvs ==
    {Restrict(g, K) :
        g \in GivenOptions,
        K \in {K \in SUBSET OptionNames : Cardinality(K) <= MaxOptions}}

ConfigKeys == {"palette", "width", "height", "add_branding", "show_dependencies"}

CliConfigs ==
    {Restrict([palette |-> "corporate", width |-> 1000, height |-> 500,
               add_branding |-> b, show_dependencies |-> TRUE], K) :
        b \in BOOLEAN, K \in SUBSET ConfigKeys}

Optional(present, k, v) == IF present THEN k :> v ELSE EmptyDict

\* every subset of the top-level keys project, config and tasks
CliMappings ==
    {Optional(p, "project", [title |-> "My Plan"])
        @@ Optional(t, "tasks", <<BaseTask>>) : p \in BOOLEAN, t \in BOOLEAN}
    \cup {("config" :> c) @@ Optional(p, "project", [title |-> "My Plan"])
            @@ Optional(t, "tasks", <<BaseTask>>) :
              c \in CliConfigs, p \in BOOLEAN, t \in BOOLEAN}

CliDocuments == {Malformed, NoneValue} \cup CliMappings

\* either no document exists, or the same document is at every path
CliFileSystems ==
    {EmptyDict} \cup {[path \in LoadPaths |-> d] : d \in CliDocuments}

CliInit ==
    /\ pc = "load"
    /\ raised = "None"
    /\ raisedIn = "None"
    /\ filepath = EmptyDict
    /\ files \in CliFileSystems
    /\ probed = <<>>
    /\ opened = <<>>
    /\ message = NoMessage
    /\ stdout = <<>>
    /\ yaml_data = NoData
    /\ df = NoFrame
    /\ fig = NoFigure
    /\ argv \in Argvs
    /\ args = parse_args(argv)
    /\ project = EmptyDict
    /\ config = EmptyDict
    /\ resolved = EmptyDict
    /\ dirs = {<<>>}
    /\ exported = <<>>
    /\ written = {}
    /\ shown = FALSE
    /\ stderr = <<>>
    /\ rc = EmptyDict
    /\ LibIdle

CliNext ==
    \/ CliLoad
    \/ CliExtract
    \/ CliNormalize
    \/ CliResolve
    \/ CliRender
    \/ CliMkdir
    \/ CliSave
    \/ CliShow

SpecCli == CliInit /\ [][CliNext]_vars

(***************************************************************************)
(* create_gantt_from_yaml                                                  *)
(***************************************************************************)
\* the keywords the call of create_gantt_chart at lines 381-389 passes by name
PassedByName == {"title", "palette", "add_branding", "show_dependencies", "height"}

\* f(..., k=v, **kwargs) with k also in kwargs: "got multiple values for
\* keyword argument", raised before the body of f runs
MultipleValues(kwargs) == DOMAIN kwargs \cap PassedByName # {}

(***************************************************************************)
(* create_gantt_from_yaml: one call, step by step.                         *)
(***************************************************************************)
KeywordNames == PassedByName \cup {"labels"}

\* the value of each keyword when it is given
GivenKeywords ==
    [title |-> "Roadmap", palette |-> "vibrant", add_branding |-> TRUE,
     show_dependencies |-> TRUE, height |-> 400, labels |-> [Task |-> "Activity"]]

Keywords ==
    {Restrict(GivenKeywords, K) :
        K \in {K \in SUBSET KeywordNames : Cardinality(K) <= MaxOptions}}

FromYamlCalls ==
    {Optional(explicit, "yaml_file", ExplicitPath)
        @@ [save_output |-> s, output_dir |-> <<"output">>, kwargs |-> kw] :
            explicit \in BOOLEAN, s \in BOOLEAN, kw \in Keywords}

\* the documents of the command-line runs whose config section is absent,
\* empty or complete
FromYamlDocuments ==
    {Malformed, NoneValue}
    \cup {Optional(p, "project", [title |-> "My Plan"])
            @@ Optional(t, "tasks", <<BaseTask>>) : p \in BOOLEAN, t \in BOOLEAN}
    \cup {("config" :> c) @@ Optional(p, "project", [title |-> "My Plan"])
            @@ Optional(t, "tasks", <<BaseTask>>) :
              c \in {c \in CliConfigs : DOMAIN c \in {{}, ConfigKeys}},
              p \in BOOLEAN, t \in BOOLEAN}

FromYamlFileSystems ==
    {EmptyDict} \cup {[path \in LoadPaths |-> d] : d \in FromYamlDocuments}

FromYamlInit ==
    /\ pc = "call"
    /\ raised = "None"
    /\ raisedIn = "None"
    /\ filepath = EmptyDict
    /\ files \in FromYamlFileSystems
    /\ probed = <<>>
    /\ opened = <<>>
    /\ message = NoMessage
    /\ stdout = <<>>
    /\ yaml_data = NoData
    /\ df = NoFrame
    /\ fig = NoFigure
    /\ CliIdle
    /\ call \in FromYamlCalls
    /\ heap = EmptyDict
    /\ calls = <<>>

\* an exception raised in a step reaches the caller
Raise(stage, cls) ==
    /\ raised' = cls
    /\ raisedIn' = stage
    /\ pc' = "raised"

NoRaise == UNCHANGED <<raised, raisedIn>>

\* yaml_data = load_data_from_yaml(yaml_file)
FromYamlLoad ==
    /\ pc = "call"
    /\ LET r == load_data_from_yaml(Cell("filepath", call, "yaml_file"), files)
       IN  /\ filepath' = Cell("filepath", call, "yaml_file")
           /\ probed' = r.probed
           /\ opened' = r.opened
           /\ message' = r.message
           /\ stdout' = stdout \o r.stdout
           /\ yaml_data' = r.data
           /\ IF r.raised = "None"
              THEN NoRaise /\ pc' = "extract"
              ELSE Raise("load", r.raised)
    /\ UNCHANGED <<libVars, files, df, fig, cliVars>>

FromYamlExtract ==
    /\ pc = "extract"
    /\ IF yaml_data = NoneValue
       THEN /\ Raise("extract", "AttributeError")
            /\ UNCHANGED <<project, config>>
       ELSE /\ project' = Get(yaml_data, "project", EmptyDict)
            /\ config' = Get(yaml_data, "config", EmptyDict)
            /\ NoRaise
            /\ pc' = "normalize"
    /\ UNCHANGED <<libVars, loadVars, stdout, dataVars, argv, args, resolved,
                   dirs, exported, written, shown, stderr, rc>>

FromYamlNormalize ==
    /\ pc = "normalize"
    /\ LET r == yaml_to_dataframe(yaml_data)
       IN  /\ df' = r.df
           /\ IF r.raised = "None"
              THEN NoRaise /\ pc' = "render"
              ELSE Raise("normalize", r.raised)
    /\ UNCHANGED <<libVars, loadVars, stdout, yaml_data, fig, cliVars>>

\* charter.create_gantt_chart(df, title=..., ..., height=..., **kwargs)
FromYamlRender ==
    /\ pc = "render"
    /\ IF MultipleValues(call.kwargs)
       THEN /\ Raise("render", "TypeError")
            /\ UNCHANGED fig
       ELSE \E ext \in RenderOutcomes :
               LET r == create_gantt_chart(
                            df,
                            Get(project, "title", "Project Timeline"),
                            Get(config, "palette", "professional"),
                            Get(config, "show_dependencies", FALSE),
                            Get(config, "add_branding", FALSE),
                            ("height" :> Get(config, "height", 600)) @@ call.kwargs,
                            ext)
               IN  /\ fig' = r.fig
                   /\ IF r.raised # "None" THEN Raise("render", r.raised)
                      ELSE /\ NoRaise
                           /\ pc' = IF call.save_output THEN "makedirs"
                                    ELSE "returned"
    /\ UNCHANGED <<libVars, loadVars, stdout, yaml_data, df, cliVars>>

\* os.makedirs(output_dir, exist_ok=True)
FromYamlMakedirs ==
    /\ pc = "makedirs"
    /\ \E ext \in MkdirOutcomes :
          IF ext = "None"
          THEN /\ dirs' = dirs \cup Prefixes(call.output_dir)
               /\ NoRaise
               /\ pc' = "save_html"
          ELSE /\ Raise("makedirs", ext)
               /\ UNCHANGED dirs
    /\ UNCHANGED <<libVars, loadVars, stdout, dataVars, argv, args, project,
                   config, resolved, exported, written, shown, stderr, rc>>

\* charter.save_chart(fig, f"{output_dir}/{filename}", format=..., width=...,
\* height=...), scale left at its default
FromYamlSave(format, next) ==
    /\ \E ext \in SaveOutcomes :
          LET filename == call.output_dir
                              \o <<Slug(Get(project, "title", "gantt_chart"))>>
              width == Get(config, "width", 1200)
              height == Get(config, "height", 600)
              r == save_chart(fig, filename, format, width, height, 3, dirs, ext)
          IN  /\ exported' = Append(exported,
                                    [filename |-> filename, format |-> format,
                                     width |-> width, height |-> height,
                                     scale |-> 3])
              /\ written' = written \cup r.written
              /\ stdout' = stdout \o r.stdout
              /\ IF r.raised = "None"
                 THEN NoRaise /\ pc' = next
                 ELSE Raise("save", r.raised)
    /\ UNCHANGED <<libVars, loadVars, dataVars, argv, args, project, config,
                   resolved, dirs, shown, stderr, rc>>

FromYamlSaveHtml == pc = "save_html" /\ FromYamlSave("html", "save_png")

FromYamlSavePng == pc = "save_png" /\ FromYamlSave("png", "returned")

FromYamlNext ==
    \/ FromYamlLoad
    \/ FromYamlExtract
    \/ FromYamlNormalize
    \/ FromYamlRender
    \/ FromYamlMakedirs
    \/ FromYamlSaveHtml
    \/ FromYamlSavePng

SpecFromYaml == FromYamlInit /\ [][FromYamlNext]_vars

(***************************************************************************)
(* The table objects of the rendering methods.                             *)
(*                                                                         *)
(* heap maps a reference to the object it denotes: "data" is the object    *)
(* the caller passes, "df" the object the local name df of the running     *)
(* method is bound to.  A data frame is [columns, rows], a list of rows is *)
(* [items].  An assignment  df[col] = ...  writes to the object df denotes.*)
(***************************************************************************)
\* isinstance(data, list)
IsList(obj) == Has(obj, "items")

\* pd.DataFrame(list of dicts): one column for every key that occurs, a null
\* cell where a dict has no such key
FrameOfRecords(items) ==
    LET occurs(c) == \E i \in 1..Len(items) : Has(items[i], c)
    IN  [columns |-> SelectSeq(RowColumns, occurs), rows |-> items]

\* the value of the object built by lines 72-75 and 193-196
CopyOf(obj) == IF IsList(obj) THEN FrameOfRecords(obj.items) ELSE obj

\* variant: df = data, the local name denotes the caller's object
LocalFrame_Alias(data) == data

\* the reference the local name df holds after lines 72-75 and 193-196:
\* pd.DataFrame(data) and data.copy() both build a new object
LocalFrame(data) == "df"

\* df[name] = ... for each name: an existing column is replaced, a new one is
\* appended
SetColumns(columns, names) ==
    LET new(c) == c \notin Range(columns)
    IN  columns \o SelectSeq(names, new)

\* the object df denotes after lines 83-88
ChartFrame(t) ==
    [columns |-> SetColumns(t.columns, <<"Duration", "Duration_Text">>),
     rows |-> [i \in 1..Len(t.rows) |-> ChartRow(t.rows[i], DaysDtype(t.rows))]]

\* the objects after create_gantt_chart(data): lines 72-88
HeapAfterChart(h, data) ==
    LET ref == LocalFrame(data)
        h1 == [h EXCEPT ![ref] = CopyOf(h[data])]
    IN  IF \E i \in 1..Len(required_cols) :
              required_cols[i] \notin Range(h1[ref].columns)
        THEN h1
        ELSE [h1 EXCEPT ![ref] = ChartFrame(h1[ref])]

\* df[col] = pd.to_datetime(df[col])
DatedFrame(t, col) ==
    [columns |-> t.columns,
     rows |-> [i \in 1..Len(t.rows) |-> to_datetime(t.rows[i], col) @@ t.rows[i]]]

\* the objects after create_resource_timeline(data): lines 193-204
HeapAfterTimeline(h, data) ==
    LET ref == LocalFrame(data)
        h1 == [h EXCEPT ![ref] = CopyOf(h[data])]
        h2 == [h1 EXCEPT ![ref] = DatedFrame(h1[ref], "Start")]
    IN  IF "Resource" \notin Range(h1[ref].columns) THEN h1
        ELSE IF "Start" \notin Range(h1[ref].columns) THEN h1
        ELSE IF "Finish" \notin Range(h1[ref].columns) THEN h2
        ELSE [h2 EXCEPT ![ref] = DatedFrame(h2[ref], "Finish")]

(***************************************************************************)
(* GanttCharter.create_resource_timeline                                   *)
(***************************************************************************)
\* data is the frame of lines 193-196; ext is the outcome of the plotting
\* collaborator
create_resource_timeline(data, title, palette, ext) ==
    IF "Resource" \notin Range(data.columns)
    THEN [raised |-> "ValueError", fig |-> NoFigure]
    ELSE IF "Start" \notin Range(data.columns) \/ "Finish" \notin Range(data.columns)
    THEN [raised |-> "KeyError", fig |-> NoFigure]
    ELSE IF ext # "None"
    THEN [raised |-> ext, fig |-> NoFigure]
    ELSE [raised |-> "None",
          fig |-> [title |-> title,
                   palette |-> palette,
                   data |-> DatedFrame(DatedFrame(data, "Start"), "Finish")]]

(***************************************************************************)
(* Rendering runs: a caller holds one table and calls create_gantt_chart   *)
(* and create_resource_timeline on it, in any order.                       *)
(***************************************************************************)
FrameEntries ==
    {BaseTask,
     Restrict(BaseTask, DOMAIN BaseTask \ {"finish"}),
     [BaseTask EXCEPT !.name = "B", !.finish = MaxDay]}

\* the tables yaml_to_dataframe returns
CallerFrames ==
    {yaml_to_dataframe("tasks" :> ts).df : ts \in SeqsUpTo(FrameEntries, MaxTasks)}

ListItem == [Task |-> "A", Start |-> 0, Finish |-> 1, Resource |-> "Bob"]

ListItems ==
    {ListItem,
     Restrict(ListItem, DOMAIN ListItem \ {"Resource"}),
     Restrict(ListItem, DOMAIN ListItem \ {"Start"})}

\* the lists of rows a caller writes by hand
CallerLists == {[items |-> l] : l \in SeqsUpTo(ListItems, MaxTasks)}

FrameInit ==
    /\ pc = "caller"
    /\ raised = "None"
    /\ raisedIn = "None"
    /\ filepath = EmptyDict
    /\ files = EmptyDict
    /\ probed = <<>>
    /\ opened = <<>>
    /\ message = NoMessage
    /\ stdout = <<>>
    /\ yaml_data = NoData
    /\ df = NoFrame
    /\ fig = NoFigure
    /\ CliIdle
    /\ call = EmptyDict
    /\ \E t \in CallerFrames \cup CallerLists : heap = [data |-> t, df |-> NoFrame]
    /\ calls = <<>>

ChartCall ==
    /\ pc = "caller"
    /\ Len(calls) < MaxCalls
    /\ \E ext \in RenderOutcomes :
          LET r == create_gantt_chart(CopyOf(heap["data"]), "Project Timeline",
                                      "professional", FALSE, FALSE, EmptyDict,
                                      ext)
          IN  /\ raised' = r.raised
              /\ raisedIn' = IF r.raised = "None" THEN "None" ELSE "render"
              /\ fig' = r.fig
    /\ heap' = HeapAfterChart(heap, "data")
    /\ calls' = Append(calls, "create_gantt_chart")
    /\ UNCHANGED <<pc, loadVars, stdout, yaml_data, df, cliVars, call>>

TimelineCall ==
    /\ pc = "caller"
    /\ Len(calls) < MaxCalls
    /\ \E ext \in RenderOutcomes :
          LET r == create_resource_timeline(CopyOf(heap["data"]),
                                            "Resource Timeline", "vibrant", ext)
          IN  /\ raised' = r.raised
              /\ raisedIn' = IF r.raised = "None" THEN "None" ELSE "render"
              /\ fig' = r.fig
    /\ heap' = HeapAfterTimeline(heap, "data")
    /\ calls' = Append(calls, "create_resource_timeline")
    /\ UNCHANGED <<pc, loadVars, stdout, yaml_data, df, cliVars, call>>

FrameNext == ChartCall \/ TimelineCall

SpecFrame == FrameInit /\ [][FrameNext]_vars

(***************************************************************************)
(* Properties of the normalisation runs.                                   *)
(***************************************************************************)
DocTasks == IF yaml_data = NoneValue THEN <<>> ELSE Get(yaml_data, "tasks", <<>>)

ColumnOf ==
    [name |-> "Task", start |-> "Start", finish |-> "Finish",
     resource |-> "Resource", phase |-> "Phase",
     description |-> "Description", dependencies |-> "Dependencies"]

OptionalDefault ==
    [resource |-> "Unassigned", phase |-> "", description |-> "",
     dependencies |-> <<>>]

Incomplete(task) == \E k \in RequiredKeys : ~Has(task, k)

Normalized == df # NoFrame
RenderReturned == pc = "rendered"
RenderRaised == pc = "failed" /\ df # NoFrame

\* C6 : a task without name, start or finish raises nothing in
\* yaml_to_dataframe, its row has the field null, and create_gantt_chart on a
\* table with such a row raises instead of returning a chart.
C6_IncompleteRowFailsRender ==
    (\E i \in 1..Len(DocTasks) : Incomplete(DocTasks[i])) =>
        /\ pc # "start" => Normalized
        /\ Normalized =>
              \A i \in 1..Len(DocTasks) : \A k \in RequiredKeys :
                 ~Has(DocTasks[i], k) => ~Has(df.rows[i], ColumnOf[k])
        /\ ~RenderReturned

\* C8 : every row of the table returned by yaml_to_dataframe
\* carries the derived duration in days and the duration label.
C8_TableCarriesDuration ==
    Normalized =>
        \A i \in 1..Len(df.rows) :
            Has(df.rows[i], "Duration") /\ Has(df.rows[i], "Duration_Text")

\* C8 (amended): the table returned by yaml_to_dataframe has only the seven
\* document columns and no derived field; the duration in days and its label
\* appear for every row in the private table of the figure returned by
\* create_gantt_chart, and the caller's table still has no derived field then.
C8_DurationOnlyInRendering ==
    /\ Normalized =>
          /\ Range(df.columns) \subseteq Range(RowColumns)
          /\ \A i \in 1..Len(df.rows) : DOMAIN df.rows[i] \subseteq Range(RowColumns)
    /\ RenderReturned =>
          /\ {"Duration", "Duration_Text"} \subseteq Range(fig.data.columns)
          /\ Len(fig.data.rows) = Len(df.rows)
          /\ \A i \in 1..Len(df.rows) :
                /\ Has(fig.data.rows[i], "Duration_Text")
                /\ (Has(df.rows[i], "Start") /\ Has(df.rows[i], "Finish"))
                      => Has(fig.data.rows[i], "Duration")

C8_Witness ==
    /\ RenderReturned
    /\ Len(df.rows) = MaxTasks
    /\ \A i \in 1..Len(df.rows) : Has(fig.data.rows[i], "Duration")

\* C9 : for every task with a start and a finish date (finish after, equal to
\* or before start) the rendered duration is finish minus start in days, and
\* the label is "1 day" exactly when the duration is 1 and "N days" for every
\* other N, zero and negative included.
C9_DurationAndLabel ==
    RenderReturned =>
        \A i \in 1..Len(DocTasks) :
            (Has(DocTasks[i], "start") /\ Has(DocTasks[i], "finish")) =>
                LET n == DocTasks[i].finish - DocTasks[i].start
                    r == fig.data.rows[i]
                IN  /\ Has(r, "Duration") /\ r["Duration"] = n
                    /\ (r["Duration_Text"] = "1 day") <=> (n = 1)
                    /\ n # 1 => r["Duration_Text"] = ToString(n) \o " days"

\* The same statement restricted to tables in which every task has both dates
\* (durations of dtype int64); it holds.
DurationAndLabelWhenAllDated ==
    (RenderReturned
        /\ \A i \in 1..Len(DocTasks) :
              Has(DocTasks[i], "start") /\ Has(DocTasks[i], "finish")) =>
        \A i \in 1..Len(DocTasks) :
            LET n == DocTasks[i].finish - DocTasks[i].start
                r == fig.data.rows[i]
            IN  /\ r["Duration"] = n
                /\ (r["Duration_Text"] = "1 day") <=> (n = 1)
                /\ n # 1 => r["Duration_Text"] = ToString(n) \o " days"

\* C10: defaults are applied field by field: in every row each absent optional
\* field has its own default ("Unassigned", "", "", empty sequence) and every
\* field present in the task entry keeps its document value, whatever the
\* other fields of the row and the other rows are.
C10_FieldWiseDefaults ==
    Normalized =>
        /\ Len(df.rows) = Len(DocTasks)
        /\ \A i \in 1..Len(DocTasks) :
              /\ \A k \in OptionalKeys :
                    /\ Has(df.rows[i], ColumnOf[k])
                    /\ df.rows[i][ColumnOf[k]] =
                          IF Has(DocTasks[i], k) THEN DocTasks[i][k]
                                                 ELSE OptionalDefault[k]
              /\ \A k \in RequiredKeys :
                    Has(DocTasks[i], k) =>
                        /\ Has(df.rows[i], ColumnOf[k])
                        /\ df.rows[i][ColumnOf[k]] = DocTasks[i][k]

C10_Witness ==
    /\ Normalized
    /\ Len(DocTasks) = 2
    /\ DOMAIN DocTasks[1] = (RequiredKeys \cup OptionalKeys) \ {"resource"}
    /\ df.rows[1]["Resource"] = "Unassigned"
    /\ df.rows[1]["Phase"] = "Design"
    /\ DOMAIN DocTasks[2] = RequiredKeys \cup {"resource"}
    /\ df.rows[2]["Resource"] = "Bob"
    /\ df.rows[2]["Phase"] = ""

\* C11: the table has exactly as many rows as the document has tasks and its
\* i-th row comes from the i-th task entry: nothing is sorted, dropped or
\* merged, also when tasks have the same name or the same content.
C11_RowsFollowDocumentOrder ==
    Normalized =>
        /\ Len(df.rows) = Len(DocTasks)
        /\ \A i \in 1..Len(DocTasks) :
              \A k \in RequiredKeys \cup OptionalKeys :
                 /\ Has(DocTasks[i], k) =>
                       /\ Has(df.rows[i], ColumnOf[k])
                       /\ df.rows[i][ColumnOf[k]] = DocTasks[i][k]
                 /\ (~Has(DocTasks[i], k) /\ k \in RequiredKeys) =>
                       ~Has(df.rows[i], ColumnOf[k])

\* two tasks of the same name, the later one first
C11_Witness ==
    /\ Normalized
    /\ Len(DocTasks) = 2
    /\ \A i \in 1..2 : {"name", "start"} \subseteq DOMAIN DocTasks[i]
    /\ DocTasks[1].name = DocTasks[2].name
    /\ DocTasks[1].start > DocTasks[2].start
    /\ df.rows[1]["Start"] > df.rows[2]["Start"]

\* two task entries with the same content give two rows
C11_WitnessSameContent ==
    /\ Normalized
    /\ Len(DocTasks) = 2
    /\ DocTasks[1] = DocTasks[2]
    /\ Len(df.rows) = 2

(***************************************************************************)
(* Properties of the loading runs.                                         *)
(***************************************************************************)
LoadCalled == pc # "start"
NoCandidate == ~Has(files, PrivatePath) /\ ~Has(files, TemplatePath)

\* C4 : called without a path when neither candidate exists,
\* load_data_from_yaml raises a not-found error whose message names both
\* candidate paths.
C4_MessageNamesBothCandidates ==
    (LoadCalled /\ ~Has(filepath, "filepath") /\ NoCandidate) =>
        /\ raised = "FileNotFoundError"
        /\ {PrivatePath, TemplatePath} \subseteq message.names

\* C4 (amended): called without a path when neither candidate exists,
\* load_data_from_yaml tests both candidates, opens nothing and raises a
\* not-found error whose message names the private-data path only.
C4_MessageNamesPrivatePathOnly ==
    (LoadCalled /\ ~Has(filepath, "filepath") /\ NoCandidate) =>
        /\ raised = "FileNotFoundError"
        /\ probed = <<PrivatePath, TemplatePath>>
        /\ opened = <<>>
        /\ message.names = {PrivatePath}

C4_Witness ==
    /\ LoadCalled
    /\ ~Has(filepath, "filepath")
    /\ NoCandidate
    /\ Has(files, ExplicitPath)
    /\ raised = "FileNotFoundError"

\* C5: an explicit path is opened as it is and no candidate is tested, also
\* when it does not exist; without one, the private-data candidate is opened
\* whenever it exists, and the template only when the private-data candidate
\* does not exist and the template does.
C5_DocumentSelection ==
    LoadCalled =>
        /\ Has(filepath, "filepath") =>
              /\ probed = <<>>
              /\ opened = <<filepath.filepath>>
              /\ ~Has(files, filepath.filepath) => raised = "FileNotFoundError"
        /\ (~Has(filepath, "filepath") /\ Has(files, PrivatePath)) =>
              opened = <<PrivatePath>>
        /\ ~Has(filepath, "filepath") =>
              (opened = <<TemplatePath>>
                  <=> (~Has(files, PrivatePath) /\ Has(files, TemplatePath)))
        /\ (raised = "None" /\ opened # <<>>) => yaml_data = files[opened[1]]

C5_Witness ==
    /\ LoadCalled
    /\ ~Has(filepath, "filepath")
    /\ Has(files, PrivatePath) /\ Has(files, TemplatePath)
    /\ files[PrivatePath] # files[TemplatePath]
    /\ opened = <<PrivatePath>>
    /\ yaml_data = files[PrivatePath]

(***************************************************************************)
(* Properties of the command-line runs.                                    *)
(***************************************************************************)
Loaded == pc # "load" /\ raisedIn # "load"
Resolved == resolved # EmptyDict
Exported == Len(exported) > 0

\* first present of: command-line value, document value, built-in default
ThreeTier(k, builtin) ==
    IF Has(argv, k) THEN argv[k]
    ELSE IF Has(config, k) THEN config[k]
    ELSE builtin

\* C1 : the width and the height passed to the export are the
\* command-line value when --width/--height is given, otherwise the document's
\* config value when present, otherwise 1200 and 600; the height passed to the
\* rendering is resolved the same way.
C1_DimensionPrecedence ==
    /\ Exported =>
          /\ exported[1].width = ThreeTier("width", 1200)
          /\ exported[1].height = ThreeTier("height", 600)
    /\ fig # NoFigure => fig.kwargs.height = ThreeTier("height", 600)

\* C2: the resolved palette, which is the palette of the rendered figure, is
\* the --palette value when given, otherwise the document's config.palette
\* when present, otherwise "professional", whatever the other options and the
\* other config fields are.
C2_PalettePrecedence ==
    /\ Resolved => resolved.palette = ThreeTier("palette", "professional")
    /\ fig # NoFigure => fig.palette = ThreeTier("palette", "professional")

C2_Witness ==
    /\ fig # NoFigure
    /\ Has(argv, "palette") /\ Has(config, "palette")
    /\ argv.palette # config.palette
    /\ fig.palette = "vibrant"

\* C3: the resolved add_branding is false whenever --no-branding is given
\* (also together with --branding), true when only --branding is given, the
\* document's config.add_branding when neither flag is given and the document
\* has it, and false when neither flag is given and the document has none.
C3_BrandingPrecedence ==
    Resolved =>
        /\ Has(argv, "no_branding") => resolved.add_branding = FALSE
        /\ (Has(argv, "branding") /\ ~Has(argv, "no_branding")) =>
              resolved.add_branding = TRUE
        /\ (~Has(argv, "branding") /\ ~Has(argv, "no_branding")) =>
              resolved.add_branding =
                 IF Has(config, "add_branding") THEN config.add_branding ELSE FALSE
        /\ fig # NoFigure => fig.add_branding = resolved.add_branding

C3_Witness ==
    /\ fig # NoFigure
    /\ Has(argv, "no_branding") /\ Has(argv, "branding")
    /\ Has(config, "add_branding") /\ config.add_branding
    /\ fig.add_branding = FALSE

\* C7 : for every loaded document, whichever of the top-level keys
\* project, config and tasks it lacks (all three included), the extraction and
\* the normalisation raise nothing; without tasks the table is empty, without
\* project (and without --title) the title is "Project Timeline", without
\* config (and without --palette and branding flags) the palette is
\* "professional" and add_branding is false.
C7_AbsentKeysDefault ==
    Loaded =>
        /\ raisedIn \notin {"extract", "normalize"}
        /\ (df # NoFrame /\ ~Has(yaml_data, "tasks")) => df.rows = <<>>
        /\ (Resolved /\ ~Has(yaml_data, "project") /\ ~Has(argv, "title")) =>
              resolved.title = "Project Timeline"
        /\ (Resolved /\ ~Has(yaml_data, "config") /\ ~Has(argv, "palette")) =>
              resolved.palette = "professional"
        /\ (Resolved /\ ~Has(yaml_data, "config")
                /\ ~Has(argv, "branding") /\ ~Has(argv, "no_branding")) =>
              resolved.add_branding = FALSE

Exited == pc = "exit"
HintLine == "cp data/gantt_template.yaml data/gantt_data.yaml"

\* load, normalize, render and export have all completed without raising
PipelineCompleted == fig # NoFigure /\ written # {}

\* C12: main returns 0 if and only if loading, normalizing,
\* rendering and exporting all completed without raising; when one of them
\* raises it returns 1 and the error message is on standard error.
C12_ZeroIffPipelineCompleted ==
    Exited =>
        /\ rc.code = 0 <=> PipelineCompleted
        /\ ~PipelineCompleted =>
              rc.code = 1 /\ stderr # <<>> /\ stderr[1] = "Error"

\* What main does instead: it returns 0 if and only if loading, normalizing,
\* rendering, exporting and, with --show, the interactive display all
\* completed without raising; a display that raises after the export makes a
\* run whose four stages completed return 1.
ZeroIffNothingRaised ==
    /\ ~Exited => rc = EmptyDict
    /\ Exited =>
          /\ rc.code \in {0, 1}
          /\ rc.code = 0 <=> (PipelineCompleted /\ (args.show => shown))
          /\ rc.code = 0 <=> raised = "None"
          /\ rc.code = 1 => stderr # <<>> /\ stderr[1] = "Error"
          /\ rc.code = 0 => stderr = <<>>

ShowFailedAfterExport ==
    /\ Exited
    /\ PipelineCompleted
    /\ raisedIn = "show"
    /\ rc.code = 1
    /\ stderr = <<"Error">>

\* C13: the remediation hint is on standard error only when the
\* failure is that the input document was not found; no failure of the render
\* or export stage prints it.
C13_HintOnlyForMissingDocument ==
    HintLine \in Range(stderr) =>
        /\ raisedIn = "load"
        /\ raised = "FileNotFoundError"

\* C14: an invocation that returns 1 has written no output file;
\* a file exists, at <output_dir>/<base_name>.<format>, only when load,
\* normalize, render and export all completed.
C14_NoFileOnFailure ==
    /\ (Exited /\ rc.code = 1) => written = {}
    /\ written # {} =>
          /\ PipelineCompleted
          /\ written = {[path |-> args.output_dir \o OutputName(args, project),
                         format |-> args.format]}

\* What main does instead: only a run that returns 1 because a stage up to
\* the export raised has written no file; a run whose interactive display
\* raises returns 1 with its file written.
NoFileUnlessExported ==
    /\ (Exited /\ rc.code = 1 /\ raisedIn # "show") => written = {}
    /\ (Exited /\ raisedIn = "show") => (rc.code = 1 /\ written # {})
    /\ written # {} =>
          /\ PipelineCompleted
          /\ raisedIn \in {"None", "show"}
          /\ written = {[path |-> args.output_dir \o OutputName(args, project),
                         format |-> args.format]}

\* C16: the stages run in the order load, normalize, render, export, display,
\* each only after the one before it completed: the output directory is
\* created only after a figure was rendered, "Chart saved successfully" is
\* printed only after the file was written, the viewer is opened only with
\* --show, after the file was written, and never when the export raised;
\* nothing runs after a stage has raised.
C16_StagesInOrder ==
    /\ df # NoFrame => (Loaded /\ yaml_data # NoData)
    /\ Resolved => df # NoFrame
    /\ fig # NoFigure => Resolved
    /\ args.output_dir \in dirs => fig # NoFigure
    /\ Exported => args.output_dir \in dirs
    /\ written # {} => Exported
    /\ "Chart saved successfully" \in Range(stdout) => written # {}
    /\ raisedIn = "save" => "Chart saved successfully" \notin Range(stdout)
    /\ shown => (args.show /\ written # {}
                    /\ "Chart saved successfully" \in Range(stdout))
    /\ raisedIn = "save" => ~shown
    /\ raised # "None" => Exited

C16_Witness ==
    /\ Exited
    /\ rc.code = 0
    /\ shown
    /\ written # {}
    /\ args.output_dir \in dirs

(***************************************************************************)
(* Properties of the library runs.                                         *)
(***************************************************************************)
\* the call got as far as calling create_gantt_chart
RenderCalled == df # NoFrame /\ pc # "render"

Overrides == DOMAIN call.kwargs \cap PassedByName

\* C15: when create_gantt_from_yaml is given a keyword for a field it also
\* reads from the document, the call does not fail because of the keyword and
\* the chart is rendered with the keyword's value, whatever the document says.
C15_OverrideTakesPrecedence ==
    RenderCalled =>
        /\ Overrides # {} => raised # "TypeError"
        /\ fig # NoFigure =>
              /\ Has(call.kwargs, "title") => fig.title = call.kwargs.title
              /\ Has(call.kwargs, "palette") => fig.palette = call.kwargs.palette
              /\ Has(call.kwargs, "add_branding") =>
                    fig.add_branding = call.kwargs.add_branding
              /\ Has(call.kwargs, "height") =>
                    fig.kwargs.height = call.kwargs.height

\* What the code does instead: every such keyword makes the call raise
\* TypeError before anything is rendered or saved; the other keywords reach the
\* plotting call, and without keywords the document's values are used.
OverrideRaisesTypeError ==
    RenderCalled =>
        /\ Overrides # {} =>
              (raised = "TypeError" /\ fig = NoFigure /\ written = {})
        /\ Overrides = {} => raised # "TypeError"
        /\ fig # NoFigure =>
              /\ fig.title = Get(Get(yaml_data, "project", EmptyDict), "title",
                                 "Project Timeline")
              /\ fig.palette = Get(Get(yaml_data, "config", EmptyDict),
                                   "palette", "professional")
              /\ fig.kwargs =
                    ("height" :> Get(Get(yaml_data, "config", EmptyDict),
                                     "height", 600)) @@ call.kwargs

OverrideRejected ==
    /\ pc = "raised"
    /\ raised = "TypeError"
    /\ Has(call.kwargs, "title")
    /\ Has(Get(yaml_data, "project", EmptyDict), "title")

PassThroughRendered ==
    /\ pc = "returned"
    /\ Has(call.kwargs, "labels")
    /\ Has(fig.kwargs, "labels")
    /\ Cardinality(written) = 2

(***************************************************************************)
(* Properties of the rendering runs.                                       *)
(***************************************************************************)
Last(q) == q[Len(q)]

\* C17: no call of create_gantt_chart or create_resource_timeline changes the
\* table the caller passed, be it a data frame or a list of rows: the converted
\* dates and the Duration and Duration_Text columns are in the method's own
\* object only.
C17_CallerTableUnchanged ==
    [][/\ heap'["data"] = heap["data"]
       /\ (calls' # calls /\ raised' = "None") =>
             /\ heap'["df"] = fig'.data
             /\ Last(calls') = "create_gantt_chart" =>
                   /\ "Duration" \in Range(heap'["df"].columns)
                   /\ "Duration_Text" \in Range(heap'["df"].columns)
                   /\ ~IsList(heap'["data"]) =>
                         "Duration" \notin Range(heap'["data"].columns)]_vars

C17_Witness ==
    /\ calls = <<"create_gantt_chart", "create_resource_timeline">>
    /\ raised = "None"
    /\ ~IsList(heap["data"])
    /\ Len(heap["data"].rows) = MaxTasks
    /\ Has(heap["data"].rows[1], "Finish")
    /\ heap["data"].rows[1]["Finish"] = 1
    /\ heap["df"].rows[1]["Finish"] = TicksPerDay
    /\ "Duration" \notin Range(heap["df"].columns)

C17_WitnessList ==
    /\ calls = <<"create_resource_timeline", "create_gantt_chart">>
    /\ raised = "None"
    /\ IsList(heap["data"])
    /\ heap["data"].items = <<ListItem>>
    /\ heap["df"].rows[1]["Duration_Text"] = "1 day"

====
